---- MODULE Spec2Model ----
(***************************************************************************)
(* Model of detectBugs (src/src/bug-detector.ts): the bug-detection stage  *)
(* of the PR reviewer.  One run builds a prompt, calls the chat gateway    *)
(* once, and turns the reply into a list of validated bug reports.         *)
(*                                                                         *)
(* JavaScript values are tagged records.  A string is a sequence of        *)
(* lexical tokens (fence marker, language tag, newline, blank, word, the   *)
(* text of one JSON value), so that trimming, the fence regular            *)
(* expressions and JSON.parse act on it as they act on the characters.     *)
(* A number is int + frac/10 with 0 <= frac <= 9, so that non-integers     *)
(* exist and <= is the lexicographic order.                                *)
(***************************************************************************)
EXTENDS Integers, Sequences, FiniteSets, TLC

(* ---------------- bounds ---------------- *)

\* longest candidate array a modelled reply carries
MaxReports == 2

(* ---------------- JavaScript values ---------------- *)

Undefined == [t |-> "undef"]

Null == [t |-> "null"]

Num(i, f) == [t |-> "num", int |-> i, frac |-> f]

Str(s) == [t |-> "str", s |-> s]

Arr(a) == [t |-> "arr", a |-> a]

Obj(o) == [t |-> "obj", o |-> o]

\* a <= b on numbers
NumLeq(a, b) == a.int < b.int \/ (a.int = b.int /\ a.frac <= b.frac)

\* Number.isInteger
IsInteger(v) == v.t = "num" /\ v.frac = 0

\* ToBoolean: undefined, null, 0 and "" are falsy
Truthy(v) ==
  CASE v.t = "undef" -> FALSE
    [] v.t = "null" -> FALSE
    [] v.t = "num" -> ~(v.int = 0 /\ v.frac = 0)
    [] v.t = "str" -> v.s # <<>>
    [] OTHER -> TRUE

\* v.k, for a v that is neither null nor undefined: an own key of an object,
\* undefined on anything else (none of the names read here is a property of
\* a string, a number or an array)
Get(v, k) ==
  IF v.t = "obj" /\ k \in DOMAIN v.o THEN v.o[k] ELSE Undefined

\* v.k throws a TypeError
GetThrows(v) == v.t \in {"undef", "null"}

\* v?.k
OptGet(v, k) == IF GetThrows(v) THEN Undefined ELSE Get(v, k)

\* the first character of a string that starts with the token tok
FirstChar(tok) ==
  IF tok.k \in {"\n", " "} THEN tok ELSE [k |-> "char", of |-> tok]

\* v?.[0]: the first element of an array, the first character of a string,
\* the value under the key "0" of an object, undefined otherwise
OptFirst(v) ==
  CASE v.t = "arr" -> IF Len(v.a) > 0 THEN v.a[1] ELSE Undefined
    [] v.t = "str" ->
         IF Len(v.s) > 0
           THEN [t |-> "str", s |-> <<FirstChar(v.s[1])>>]
           ELSE Undefined
    [] v.t = "obj" -> IF "0" \in DOMAIN v.o THEN v.o["0"] ELSE Undefined
    [] OTHER -> Undefined

(* ---------------- strings as token sequences ---------------- *)

\* the markdown fence marker, three backquotes
FENCE == [k |-> "fence"]

NL == [k |-> "\n"]

SP == [k |-> " "]

Tag(name) == [k |-> "tag", name |-> name]

Word(w) == [k |-> "word", w |-> w]

\* the text JSON.stringify gives for the value v
JsonText(v) == [k |-> "json-text", v |-> v]

\* a one-word string
W(w) == <<Word(w)>>

IsSpace(tok) == tok = NL \/ tok = SP

RECURSIVE TrimStart(_)
TrimStart(s) ==
  IF s # <<>> /\ IsSpace(Head(s)) THEN TrimStart(Tail(s)) ELSE s

RECURSIVE TrimEnd(_)
TrimEnd(s) ==
  IF s # <<>> /\ IsSpace(s[Len(s)])
    THEN TrimEnd(SubSeq(s, 1, Len(s) - 1))
    ELSE s

\* String.prototype.trim
Trim(s) == TrimEnd(TrimStart(s))

\* .replace(/^FENCE(?:json)?\n/, ''): the opening marker, bare or tagged json,
\* directly followed by a newline
StripOpenFence(s) ==
  IF Len(s) >= 2 /\ s[1] = FENCE /\ s[2] = NL
    THEN SubSeq(s, 3, Len(s))
    ELSE IF Len(s) >= 3 /\ s[1] = FENCE /\ s[2] = Tag("json") /\ s[3] = NL
      THEN SubSeq(s, 4, Len(s))
      ELSE s

\* .replace(/\nFENCE$/, ''): a newline and the marker at the very end
StripCloseFence(s) ==
  IF Len(s) >= 2 /\ s[Len(s) - 1] = NL /\ s[Len(s)] = FENCE
    THEN SubSeq(s, 1, Len(s) - 2)
    ELSE s

\* textToProcess.trim().replace(open).replace(close).trim()
StripFence(s) == Trim(StripCloseFence(StripOpenFence(Trim(s))))

\* JSON.parse: surrounding white space is allowed around exactly one JSON
\* text; anything else is a SyntaxError
JSONParse(s) ==
  LET body == Trim(s)
  IN IF Len(body) = 1 /\ body[1].k = "json-text"
       THEN [ok |-> TRUE, v |-> body[1].v]
       ELSE [ok |-> FALSE, v |-> Undefined]

(* ---------------- the stages of detectBugs ---------------- *)

\* the promise detectBugs returns
Pending == [state |-> "pending", value |-> <<>>]

Resolved(list) == [state |-> "resolved", value |-> list]

Rejected == [state |-> "rejected", value |-> <<>>]

\* how a block of statements ends: it falls through with a value, it
\* returns a list, or it throws
Normal(v, logs) == [c |-> "normal", v |-> v, logs |-> logs]

Return(list, logs) == [c |-> "return", v |-> list, logs |-> logs]

Throw(logs) == [c |-> "throw", v |-> Undefined, logs |-> logs]

\* if (!response || !response.trim()) { warn; return [] }
\* response.trim is not a function unless response is a string
EmptyReplyCheck(response) ==
  IF ~Truthy(response)
    THEN Return(<<>>, <<"warn: Bug detector received empty response">>)
    ELSE IF response.t # "str"
      THEN Throw(<<>>)
      ELSE IF Trim(response.s) = <<>>
        THEN Return(<<>>, <<"warn: Bug detector received empty response">>)
        ELSE Normal(response, <<>>)

\* if (options.debug) console.debug('Raw bot response:', response)
RawResponseLog(debug) ==
  IF debug THEN <<"debug: Raw bot response">> ELSE <<>>

\* let textToProcess = response; if (typeof response === 'object' ...) {...}
ExtractText(response, debug) ==
  IF response.t \in {"obj", "arr"}
    THEN LET viaMessage == OptGet(Get(response, "message"), "content")
             viaText == Get(response, "text")
             viaDetail ==
               OptGet(OptGet(OptFirst(OptGet(Get(response, "detail"),
                                             "choices")),
                             "message"),
                      "content")
         IN IF Truthy(viaMessage)
              THEN Normal(viaMessage, RawResponseLog(debug))
              ELSE IF Truthy(viaText)
                THEN Normal(viaText, RawResponseLog(debug))
                ELSE IF Truthy(viaDetail)
                  THEN Normal(viaDetail, RawResponseLog(debug))
                  ELSE Return(<<>>,
                         RawResponseLog(debug)
                           \o <<"error: Unexpected response format">>)
    ELSE Normal(response, RawResponseLog(debug))

\* textToProcess = textToProcess.trim().replace(...).replace(...).trim()
\* trim is not a function unless textToProcess is a string
StripFenceStage(text) ==
  IF text.t # "str" THEN Throw(<<>>) ELSE Normal(Str(StripFence(text.s)), <<>>)

\* the debug log dereferences the analysis text (parsedResponse.analysis.trim())
AnalysisLogDereferences(parsedResponse, debug) ==
  debug /\ (GetThrows(parsedResponse)
              \/ GetThrows(Get(parsedResponse, "analysis")))

\* if (options.debug) console.debug('Analysis:', parsedResponse.analysis)
\* reading .analysis of null throws
AnalysisLogThrows(parsedResponse, debug) ==
  debug /\ GetThrows(parsedResponse)

\* parsedResponse.bugReports || []
BugReportsOf(parsedResponse) ==
  IF Truthy(Get(parsedResponse, "bugReports"))
    THEN Get(parsedResponse, "bugReports")
    ELSE Arr(<<>>)

\* const parsedResponse = JSON.parse(textToProcess); the analysis log;
\* const bugReports = parsedResponse.bugReports || []
Decode(text, debug) ==
  LET parsed == JSONParse(text.s)
  IN IF ~parsed.ok
       THEN Throw(<<>>)
       ELSE IF AnalysisLogThrows(parsed.v, debug) \/ GetThrows(parsed.v)
         THEN Throw(<<>>)
         ELSE Normal(BugReportsOf(parsed.v),
                     IF debug THEN <<"debug: Analysis">> ELSE <<>>)

\* the list of legal severities
Severities == {W("low"), W("medium"), W("high"), W("critical")}

\* isValid without the upper bound on confidence
IsValidNoUpperBound(report) ==
  /\ Get(report, "description").t = "str"
  /\ Get(report, "confidence").t = "num"
  /\ NumLeq(Num(0, 0), Get(report, "confidence"))
  /\ Get(report, "severity").t = "str"
  /\ Get(report, "severity").s \in Severities
  /\ Get(report, "suggestedFix").t = "str"
  /\ Get(report, "lineStart").t = "num"
  /\ Get(report, "lineEnd").t = "num"
  /\ NumLeq(Get(report, "lineStart"), Get(report, "lineEnd"))

\* isValid with lineStart < lineEnd
IsValidStrictLines(report) ==
  /\ Get(report, "description").t = "str"
  /\ Get(report, "confidence").t = "num"
  /\ NumLeq(Num(0, 0), Get(report, "confidence"))
  /\ NumLeq(Get(report, "confidence"), Num(100, 0))
  /\ Get(report, "severity").t = "str"
  /\ Get(report, "severity").s \in Severities
  /\ Get(report, "suggestedFix").t = "str"
  /\ Get(report, "lineStart").t = "num"
  /\ Get(report, "lineEnd").t = "num"
  /\ NumLeq(Get(report, "lineStart"), Get(report, "lineEnd"))
  /\ Get(report, "lineStart") # Get(report, "lineEnd")

\* the isValid expression of the filter callback, for a report whose
\* properties can be read
IsValid(report) ==
  /\ Get(report, "description").t = "str"
  /\ Get(report, "confidence").t = "num"
  /\ NumLeq(Num(0, 0), Get(report, "confidence"))
  /\ NumLeq(Get(report, "confidence"), Num(100, 0))
  /\ Get(report, "severity").t = "str"
  /\ Get(report, "severity").s \in Severities
  /\ Get(report, "suggestedFix").t = "str"
  /\ Get(report, "lineStart").t = "num"
  /\ Get(report, "lineEnd").t = "num"
  /\ NumLeq(Get(report, "lineStart"), Get(report, "lineEnd"))

\* index of the first element whose property read throws, 0 when none
FirstThrowing(a) ==
  IF \E i \in 1..Len(a) : GetThrows(a[i])
    THEN CHOOSE i \in 1..Len(a) :
           GetThrows(a[i]) /\ \A j \in 1..(i - 1) : ~GetThrows(a[j])
    ELSE 0

\* the console.warn calls of the filter callback over the elements seen
RECURSIVE InvalidLogs(_, _)
InvalidLogs(a, debug) ==
  IF a = <<>>
    THEN <<>>
    ELSE (IF ~IsValid(Head(a)) /\ debug
            THEN <<"warn: Invalid bug report">>
            ELSE <<>>) \o InvalidLogs(Tail(a), debug)

\* a lone report object is taken as an array of one
ValidateWrappingSingle(bugReports, debug) ==
  LET list == IF bugReports.t = "obj" THEN <<bugReports>> ELSE bugReports.a
  IN IF bugReports.t \notin {"arr", "obj"}
       THEN Throw(<<>>)
       ELSE IF FirstThrowing(list) # 0
         THEN Throw(InvalidLogs(SubSeq(list, 1, FirstThrowing(list) - 1), debug))
         ELSE Normal(Arr(SelectSeq(list, IsValid)), InvalidLogs(list, debug))

\* const validReports = bugReports.filter(report => ...)
\* filter is not a function unless bugReports is an array
Validate(bugReports, debug) ==
  IF bugReports.t # "arr"
    THEN Throw(<<>>)
    ELSE LET stop == FirstThrowing(bugReports.a)
         IN IF stop # 0
              THEN Throw(InvalidLogs(SubSeq(bugReports.a, 1, stop - 1), debug))
              ELSE Normal(Arr(SelectSeq(bugReports.a, IsValid)),
                          InvalidLogs(bugReports.a, debug))

\* {filePath, ...report}: the spread comes last and the report's own
\* filePath, when it has one, wins
StampReportWins(report, filePath) ==
  Obj([k \in (DOMAIN report.o) \cup {"filePath"} |->
         IF k = "filePath" /\ Get(report, "filePath") = Undefined
           THEN Str(filePath)
           ELSE report.o[k]])

\* {...report, filePath}
Stamp(report, filePath) ==
  Obj([k \in (DOMAIN report.o) \cup {"filePath"} |->
         IF k = "filePath" THEN Str(filePath) ELSE report.o[k]])

\* return validReports.map(report => ({...report, filePath}))
Assemble(validReports, filePath) ==
  [i \in 1..Len(validReports.a) |-> Stamp(validReports.a[i], filePath)]

\* } catch (error) { error; if (options.debug) error; return [] }   (inner)
InnerCatch(debug) ==
  Return(<<>>,
         <<"error: Failed to parse bug detector response">>
           \o (IF debug THEN <<"error: Raw response">> ELSE <<>>))

\* the outer catch lets the error go on
OuterCatchRethrows ==
  Throw(<<"error: Error during bug detection">>)

\* } catch (error) { error; return [] }   (outer)
OuterCatch ==
  Return(<<>>, <<"error: Error during bug detection">>)

(* ---------------- try / catch nesting and the whole run ---------------- *)

\* a throw inside the outer try block ends in the outer catch
ViaOuter(comp) ==
  IF comp.c = "throw"
    THEN [OuterCatch EXCEPT !.logs = comp.logs \o @]
    ELSE comp

\* a throw inside the inner try block ends in the inner catch, which itself
\* lies inside the outer try block
ViaInner(comp, debug) ==
  IF comp.c = "throw"
    THEN ViaOuter([InnerCatch(debug) EXCEPT !.logs = comp.logs \o @])
    ELSE comp

\* statement sequencing: next runs on the value comp fell through with
AndThen(comp, next(_)) ==
  IF comp.c = "normal"
    THEN LET n == next(comp.v) IN [n EXCEPT !.logs = comp.logs \o @]
    ELSE comp

\* the body of the inner try block
InnerTry(response, filePath, debug) ==
  LET strip(text) == StripFenceStage(text)
      decode(text) == Decode(text, debug)
      validate(reports) == Validate(reports, debug)
      assemble(valid) == Return(Assemble(valid, filePath), <<>>)
  IN AndThen(AndThen(AndThen(AndThen(ExtractText(response, debug), strip),
                             decode),
                     validate),
             assemble)

\* everything detectBugs does once bot.chat has handed back response
AfterGateway(response, filePath, debug) ==
  LET inner(r) == ViaInner(InnerTry(r, filePath, debug), debug)
  IN ViaOuter(AndThen(EmptyReplyCheck(response), inner))

\* the promise a completed run leaves behind
Settle(comp) ==
  IF comp.c = "return" THEN Resolved(comp.v) ELSE Rejected

\* the list detectBugs resolves to for a reply
DetectBugsList(response, filePath, debug) ==
  Settle(AfterGateway(response, filePath, debug)).value

(* ---------------- prompt construction ---------------- *)

NewHunk == Word("---new_hunk---")

OldHunk == Word("---old_hunk---")

\* .replace(/<marker>\n/g, ''): every marker directly followed by a newline
RECURSIVE RemoveMarker(_, _)
RemoveMarker(s, marker) ==
  IF s = <<>>
    THEN <<>>
    ELSE IF Len(s) >= 2 /\ s[1] = marker /\ s[2] = NL
      THEN RemoveMarker(SubSeq(s, 3, Len(s)), marker)
      ELSE <<Head(s)>> \o RemoveMarker(Tail(s), marker)

\* const cleanedPatch = patch.replace(new).replace(old).trim()
CleanPatch(patch) == Trim(RemoveMarker(RemoveMarker(patch, NewHunk), OldHunk))

\* the text of a one-word string, as a template literal interpolates it
\* into a log message
NameOf(s) == s[1].w

\* extractImports: the import paths of the file under review; when the file
\* cannot be read the error is caught, a warning is logged and there are none
ExtractImports(fs, filePath) ==
  IF fs.file = "readable"
    THEN [imports |-> fs.imports, logs |-> <<>>]
    ELSE [imports |-> <<>>,
          logs |-> <<"warn: Error extracting imports from " \o NameOf(filePath)>>]

\* the part of the for loop of getRelatedFiles that runs without waiting:
\* entries that options.checkPath refuses are passed over, an entry on which
\* checkPath throws ends the loop in the catch of getRelatedFiles, an entry
\* it accepts is read next
RECURSIVE UpToNextRead(_)
UpToNextRead(todo) ==
  IF todo = <<>>
    THEN [todo |-> <<>>, logs |-> <<>>]
    ELSE IF Head(todo).check = "throws"
      THEN [todo |-> <<>>, logs |-> <<"warn: Error getting related files">>]
      ELSE IF Head(todo).check = "reject"
        THEN UpToNextRead(Tail(todo))
        ELSE [todo |-> todo, logs |-> <<>>]

\* Map.prototype.set on the Map kept as its entries in insertion order: a
\* key already there keeps its place and takes the new value, a new key is
\* added at the end
MapSet(files, name, content) ==
  IF \E i \in 1..Len(files) : files[i].name = name
    THEN [i \in 1..Len(files) |->
            IF files[i].name = name
              THEN [name |-> name, content |-> content]
              ELSE files[i]]
    ELSE Append(files, [name |-> name, content |-> content])

\* await fs.readFile(file, 'utf8') for one accepted entry:
\* relatedFiles.set(file, content), or the warning of the inner catch
ReadOne(entry, files) ==
  IF entry.content = Undefined
    THEN [files |-> files,
          logs |-> <<"warn: Could not read file " \o NameOf(entry.name)>>]
    ELSE [files |-> MapSet(files, entry.name, entry.content.s),
          logs |-> <<>>]

\* the entries of the Map, in insertion order
RECURSIVE ContextEntries(_)
ContextEntries(files) ==
  IF files = <<>>
    THEN <<>>
    ELSE <<Word("File:"), SP>> \o Head(files).name
           \o <<NL, NL, FENCE, NL>> \o Head(files).content
           \o <<NL, FENCE, NL, NL>>
           \o ContextEntries(Tail(files))

\* buildProjectContext: the header, then name and fenced content per file
BuildProjectContext(files) ==
  <<Word("### Related Files"), NL, NL>> \o ContextEntries(files)

\* the full text of the file under review
FileContent == <<Word("const"), SP, Word("x"), NL>>

\* the bugDetectionPrompt template literal: the fixed text with the
\* project context, the file path, the file content and the patch filled in
BugDetectionPrompt(projectContext, filePath, patch) ==
  <<Word("## Project Context"), NL, NL>>
    \o projectContext
    \o <<Word("## File Context"), NL, Word("File:")>> \o filePath \o <<NL>>
    \o FileContent
    \o <<Word("## Changes to Review"), NL>> \o patch \o <<NL>>
    \o <<Word("## IMPORTANT Instructions"), NL>>

\* the text contains a sentinel marker of the diff
HasMarker(s) == \E i \in 1..Len(s) : s[i] \in {NewHunk, OldHunk}

(* ---------------- inputs ---------------- *)

\* a candidate object; Undefined stands for a key the object does not have
Cand(d, c, sev, fix, ls, le, fp) ==
  Obj([description |-> d, confidence |-> c, severity |-> sev,
       suggestedFix |-> fix, lineStart |-> ls, lineEnd |-> le,
       filePath |-> fp])

ValidCands ==
  { Cand(Str(W("d")), Num(80, 0), Str(W("high")), Str(<<>>),
         Num(5, 0), Num(5, 0), Undefined),
    Cand(Str(<<>>), Num(80, 5), Str(W("low")), Str(W("fix")),
         Num(1, 5), Num(2, 0), Undefined),
    Cand(Str(W("e")), Num(100, 0), Str(W("critical")), Str(W("fix")),
         Num(1, 0), Num(9, 0), Str(W("guess.ts"))) }

InvalidCands ==
  { Cand(Str(W("d")), Num(100, 1), Str(W("high")), Str(<<>>),
         Num(5, 0), Num(5, 0), Undefined),
    Cand(Str(W("d")), Num(-1, 9), Str(W("high")), Str(<<>>),
         Num(5, 0), Num(5, 0), Undefined),
    Cand(Str(W("d")), Num(80, 0), Str(W("urgent")), Str(<<>>),
         Num(5, 0), Num(5, 0), Undefined),
    Cand(Str(W("d")), Num(80, 0), Str(W("high")), Str(<<>>),
         Num(5, 1), Num(5, 0), Undefined),
    Cand(Undefined, Num(80, 0), Str(W("high")), Str(<<>>),
         Num(5, 0), Num(5, 0), Undefined),
    Cand(Str(W("d")), Str(W("80")), Str(W("high")), Str(<<>>),
         Num(5, 0), Num(5, 0), Undefined),
    Cand(Str(W("d")), Num(80, 0), Str(W("high")), Null,
         Num(5, 0), Num(5, 0), Undefined),
    Cand(Str(W("d")), Num(80, 0), Str(W("high")), Str(<<>>),
         Num(5, 0), Str(W("5")), Undefined) }

\* array elements that are not objects
NonObjects == { Null, Num(7, 0), Str(W("s")), Arr(<<>>) }

Elements == ValidCands \cup InvalidCands \cup NonObjects

CandArrays == UNION { [1..n -> Elements] : n \in 0..MaxReports }

\* {analysis, bugReports}
Answer(analysis, bugReports) ==
  Obj([analysis |-> analysis, bugReports |-> bugReports])

\* the candidate arrays a reply carries as its top-level value: valid
\* candidates and elements that are not objects
TopLevelArrays ==
  UNION { [1..n -> ValidCands \cup NonObjects] : n \in 0..MaxReports }

\* decoded values that carry a candidate array
ArrayPayloads ==
  { Arr(a) : a \in TopLevelArrays }
    \cup { Answer(Str(W("analysis")), Arr(a)) : a \in CandArrays }
    \cup { Answer(Undefined, Arr(<<c>>)) : c \in ValidCands }

\* decoded values of any other shape
OtherPayloads ==
  { Answer(Undefined, Undefined), Answer(Str(W("analysis")), Undefined),
    Null, Num(7, 0), Str(W("s")),
    Answer(Undefined, Str(W("s"))), Answer(Undefined, Num(7, 0)),
    Answer(Undefined, Cand(Str(W("d")), Num(80, 0), Str(W("high")), Str(<<>>),
                           Num(5, 0), Num(5, 0), Undefined)),
    Answer(Undefined, Null), Answer(Undefined, Num(0, 0)),
    Answer(Undefined, Str(<<>>)) }

Payloads == ArrayPayloads \cup OtherPayloads

\* the ways a reply decorates its JSON text
FenceForms == {"bare", "fence", "json", "js", "padded", "twice"}

Decorate(form, v) ==
  CASE form = "bare" -> <<JsonText(v)>>
    [] form = "fence" -> <<FENCE, NL, JsonText(v), NL, FENCE>>
    [] form = "json" -> <<FENCE, Tag("json"), NL, JsonText(v), NL, FENCE>>
    [] form = "js" -> <<FENCE, Tag("js"), NL, JsonText(v), NL, FENCE>>
    [] form = "padded" ->
         <<NL, FENCE, Tag("json"), NL, SP, JsonText(v), NL, FENCE, NL>>
    [] form = "twice" ->
         <<FENCE, NL, FENCE, Tag("json"), NL, JsonText(v), NL, FENCE,
           NL, FENCE>>

\* payloads with at most one candidate
ShortPayloads ==
  OtherPayloads
    \cup { p \in ArrayPayloads :
             Len((IF p.t = "arr" THEN p ELSE Get(p, "bugReports")).a) <= 1 }

\* the reply strings: every payload bare and in a json fence, the short ones
\* in every form, and three replies that are not JSON
Texts ==
  { Decorate(form, v) : form \in {"bare", "json"}, v \in Payloads }
    \cup { Decorate(form, v) : form \in FenceForms, v \in ShortPayloads }
    \cup { <<>>, <<SP, NL>>, <<Word("not"), SP, Word("json")>> }

\* reply envelopes: {message: {content}}, {text}, {detail: {choices: [..]}}
Envelope(message, text, detail) ==
  Obj([message |-> message, text |-> text, detail |-> detail])

Message(content) == Obj([content |-> content])

Detail(content) == Obj([choices |-> Arr(<<Obj([message |-> Message(content)])>>)])

\* the texts an envelope carries in the model
EnvelopeTexts ==
  { Decorate(form, v) : form \in {"bare", "json"},
                        v \in { p \in Payloads :
                                  /\ p.t = "obj"
                                  /\ Get(p, "bugReports").t = "arr"
                                  /\ Len(Get(p, "bugReports").a) <= 1 } }
    \cup { Decorate("bare", Arr(<<c>>)) : c \in ValidCands }

Envelopes ==
  { Envelope(Message(Str(T)), Undefined, Undefined) : T \in EnvelopeTexts }
    \cup { Envelope(Undefined, Str(T), Undefined) : T \in EnvelopeTexts }
    \cup { Envelope(Undefined, Undefined, Detail(Str(T))) : T \in EnvelopeTexts }
    \cup { Envelope(Message(Str(<<>>)), Str(T), Detail(Str(<<SP>>))) :
             T \in EnvelopeTexts }
    \cup { Envelope(Undefined, Undefined,
                    Obj([choices |->
                           Obj([k \in {"0"} |->
                                  Obj([message |-> Message(Str(T))])])])) :
             T \in { Decorate("bare", Answer(Undefined, Arr(<<c>>))) :
                       c \in ValidCands } }
    \cup { Envelope(Undefined, Undefined, Undefined),
           Envelope(Message(Undefined), Str(<<>>), Obj([choices |-> Arr(<<>>)])) }

\* the first element of what bot.chat resolves to
Responses == { Str(T) : T \in Texts } \cup Envelopes \cup { Undefined, Null }

\* what the awaited bot.chat call does
ChatOutcomes ==
  { [kind |-> "rejects", first |-> Undefined],
    [kind |-> "notIterable", first |-> Undefined] }
    \cup { [kind |-> "tuple", first |-> r] : r \in Responses }

FilePaths == { W("a.ts"), W("b.ts") }

\* a directory entry or import path: its name, what options.checkPath does
\* with it, and its content (Undefined when it cannot be read)
Entry(name, check, content) ==
  [name |-> W(name), check |-> check, content |-> content]

UtilTs == Entry("util.ts", "accept", Str(<<Word("export"), SP, Word("u"), NL>>))

DepTs == Entry("dep.ts", "accept", Str(<<Word("export"), SP, Word("d")>>))

\* what getRelatedFiles finds on disk: whether the file under review can be
\* read and what it imports, whether its directory can be listed and what
\* the directory holds
FileSystem(file, imports, dir, entries) ==
  [file |-> file, imports |-> imports, dir |-> dir, entries |-> entries]

FileSystems ==
  { FileSystem("readable", <<DepTs>>, "listed", <<UtilTs>>),
    FileSystem("readable", <<DepTs, DepTs>>, "listed",
               <<Entry("a.ts", "reject", Str(FileContent)),
                 Entry("dep.ts", "reject", DepTs.content)>>),
    FileSystem("missing", <<>>, "missing", <<>>),
    FileSystem("missing", <<>>, "listed", <<UtilTs>>),
    FileSystem("readable", <<>>, "listed",
               <<UtilTs, Entry("sub", "accept", Undefined)>>),
    FileSystem("readable", <<>>, "listed",
               <<Entry("a.js", "reject", Str(<<Word("x")>>)), UtilTs,
                 Entry("bad", "throws", Undefined), UtilTs>>) }

Patches ==
  { <<Word("+x"), NL, Word("-y")>>,
    <<NewHunk, NL, Word("+x"), NL, OldHunk, NL, Word("-y"), NL>> }

(* ---------------- the run as a state machine ---------------- *)

VARIABLES pc, fs, todo, relatedFiles, filePath, patch, debug, prompt,
          cleanedPatch, chatCalls, response, work, promise, logs

vars == <<pc, fs, todo, relatedFiles, filePath, patch, debug, prompt,
          cleanedPatch, chatCalls, response, work, promise, logs>>

\* fs           what is on disk when getRelatedFiles runs
\* todo         the entries the loop of getRelatedFiles has still to visit
\* relatedFiles the Map of that name, in insertion order

\* pc           where the run stands
\* filePath, patch, debug   the arguments (options.debug)
\* prompt       bugDetectionPrompt, once built
\* cleanedPatch the local of that name, once computed
\* chatCalls    how often bot.chat has been called
\* response     the destructured reply
\* work         the value handed from one stage to the next (textToProcess,
\*              bugReports, validReports)
\* promise      the promise detectBugs returned
\* logs         the console calls so far

Init ==
  /\ pc = "Start"
  /\ fs \in FileSystems
  /\ todo = <<>>
  /\ relatedFiles = <<>>
  /\ filePath \in FilePaths
  /\ patch \in Patches
  /\ debug \in BOOLEAN
  /\ prompt = <<>>
  /\ cleanedPatch = <<>>
  /\ chatCalls = 0
  /\ response = Undefined
  /\ work = Undefined
  /\ promise = Pending
  /\ logs = <<>>

\* a run that ended in the outer catch calls the gateway a second time
FinishRetries(comp) ==
  IF /\ comp.logs # <<>>
     /\ comp.logs[Len(comp.logs)] = "error: Error during bug detection"
     /\ chatCalls < 2
    THEN /\ pc' = "Built"
         /\ promise' = promise
         /\ logs' = logs \o comp.logs
         /\ work' = Undefined
    ELSE /\ pc' = "Empty"
         /\ promise' = IF comp.c = "return" THEN Resolved(comp.v) ELSE Rejected
         /\ logs' = logs \o comp.logs
         /\ work' = Undefined

\* the run ends with the completion comp (a return or an uncaught throw)
Finish(comp) ==
  /\ pc' = "Empty"
  /\ promise' = Settle(comp)
  /\ logs' = logs \o comp.logs
  /\ work' = Undefined

\* a stage completed with comp: go on to the stage next, or end
Advance(comp, next) ==
  IF comp.c = "normal"
    THEN /\ pc' = next
         /\ work' = comp.v
         /\ logs' = logs \o comp.logs
         /\ promise' = promise
    ELSE Finish(comp)

\* lines 237 and 273-309: await extractImports(filePath)
ReadImports ==
  /\ pc = "Start"
  /\ LET r == ExtractImports(fs, filePath)
     IN /\ todo' = r.imports
        /\ logs' = logs \o r.logs
  /\ pc' = "ImportsRead"
  /\ UNCHANGED <<fs, relatedFiles, filePath, patch, debug, prompt,
                 cleanedPatch, chatCalls, response, work, promise>>

\* lines 240-246 and 254-256: await fs.readdir(dirPath), then the loop up to
\* its first readFile; a failing readdir ends in the catch
ListDirectory ==
  /\ pc = "ImportsRead"
  /\ IF fs.dir = "listed"
       THEN LET r == UpToNextRead(todo \o fs.entries)
            IN /\ todo' = r.todo
               /\ logs' = logs \o r.logs
               /\ pc' = IF r.todo = <<>> THEN "Discovered" ELSE "Reading"
       ELSE /\ todo' = <<>>
            /\ logs' = logs \o <<"warn: Error getting related files">>
            /\ pc' = "Discovered"
  /\ UNCHANGED <<fs, relatedFiles, filePath, patch, debug, prompt,
                 cleanedPatch, chatCalls, response, work, promise>>

\* lines 244-253: one awaited readFile settles, then the loop up to the next
ReadRelatedFile ==
  /\ pc = "Reading"
  /\ LET read == ReadOne(Head(todo), relatedFiles)
         r == UpToNextRead(Tail(todo))
     IN /\ relatedFiles' = read.files
        /\ todo' = r.todo
        /\ logs' = logs \o read.logs \o r.logs
        /\ pc' = IF r.todo = <<>> THEN "Discovered" ELSE "Reading"
  /\ UNCHANGED <<fs, filePath, patch, debug, prompt, cleanedPatch, chatCalls,
                 response, work, promise>>

\* lines 27-134: await buildProjectContext(relatedFiles), then the prompt
BuildPrompt ==
  /\ pc = "Discovered"
  /\ prompt' = BugDetectionPrompt(BuildProjectContext(relatedFiles),
                                  filePath, patch)
  /\ pc' = "Built"
  /\ UNCHANGED <<fs, todo, relatedFiles, filePath, patch, debug,
                 cleanedPatch, chatCalls, response, work, promise, logs>>

\* lines 136-143: cleanedPatch, then bot.chat(bugDetectionPrompt, {})
CallGateway ==
  /\ pc = "Built"
  /\ cleanedPatch' = CleanPatch(patch)
  /\ chatCalls' = chatCalls + 1
  /\ pc' = "AwaitGateway"
  /\ UNCHANGED <<fs, todo, relatedFiles, filePath, patch, debug, prompt, response, work, promise, logs>>

\* line 143: the await settles and [response] is destructured
GatewaySettles ==
  /\ pc = "AwaitGateway"
  /\ \E out \in ChatOutcomes :
       IF out.kind = "tuple"
         THEN /\ response' = out.first
              /\ pc' = "GatewayReturned"
              /\ UNCHANGED <<work, promise, logs>>
         ELSE /\ response' = response
              /\ Finish(ViaOuter(Throw(<<>>)))
  /\ UNCHANGED <<fs, todo, relatedFiles, filePath, patch, debug, prompt, cleanedPatch, chatCalls>>

\* lines 145-176: the empty-reply guard and the envelope unwrapping
Unwrap ==
  /\ pc = "GatewayReturned"
  /\ LET extract(r) == ViaInner(ExtractText(r, debug), debug)
     IN Advance(ViaOuter(AndThen(EmptyReplyCheck(response), extract)),
                "Unwrapped")
  /\ UNCHANGED <<fs, todo, relatedFiles, filePath, patch, debug, prompt, cleanedPatch, chatCalls,
                 response>>

\* lines 179-182
FenceStrip ==
  /\ pc = "Unwrapped"
  /\ Advance(ViaInner(StripFenceStage(work), debug), "FenceStripped")
  /\ UNCHANGED <<fs, todo, relatedFiles, filePath, patch, debug, prompt, cleanedPatch, chatCalls,
                 response>>

\* lines 185-193
DecodeStep ==
  /\ pc = "FenceStripped"
  /\ Advance(ViaInner(Decode(work, debug), debug), "Decoded")
  /\ UNCHANGED <<fs, todo, relatedFiles, filePath, patch, debug, prompt, cleanedPatch, chatCalls,
                 response>>

\* lines 196-212
ValidateStep ==
  /\ pc = "Decoded"
  /\ Advance(ViaInner(Validate(work, debug), debug), "Validated")
  /\ UNCHANGED <<fs, todo, relatedFiles, filePath, patch, debug, prompt, cleanedPatch, chatCalls,
                 response>>

\* lines 214-217
AssembleStep ==
  /\ pc = "Validated"
  /\ pc' = "Assembled"
  /\ promise' = Resolved(Assemble(work, filePath))
  /\ work' = Undefined
  /\ UNCHANGED <<fs, todo, relatedFiles, filePath, patch, debug, prompt, cleanedPatch, chatCalls,
                 response, logs>>

Next ==
  \/ ReadImports
  \/ ListDirectory
  \/ ReadRelatedFile
  \/ BuildPrompt
  \/ CallGateway
  \/ GatewaySettles
  \/ Unwrap
  \/ FenceStrip
  \/ DecodeStep
  \/ ValidateStep
  \/ AssembleStep

Spec == Init /\ [][Next]_vars

Done == pc \in {"Assembled", "Empty"}

\* the step-wise run and the composed run agree
StepwiseAgrees ==
  (Done /\ chatCalls = 1 /\ response # Undefined) =>
    promise = Settle(AfterGateway(response, filePath, debug))

(* ---------------- vocabulary of the properties ---------------- *)

\* the run got a reply from the gateway and has ended
Replied == Done /\ chatCalls = 1 /\ response # Undefined

\* the reply is a string that is exactly the JSON text of one value
IsBareJson(r) == r.t = "str" /\ Len(r.s) = 1 /\ r.s[1].k = "json-text"

\* the value a bare reply decodes to
BareValue(r) == r.s[1].v

\* a decoded value of one of the two supported shapes
HasCandidateArray(v) ==
  v.t = "arr" \/ (v.t = "obj" /\ Get(v, "bugReports").t = "arr")

\* the validation rule of the Report Validator, per candidate
Acceptable(c) ==
  LET d == Get(c, "description")
      conf == Get(c, "confidence")
      sev == Get(c, "severity")
      fix == Get(c, "suggestedFix")
      ls == Get(c, "lineStart")
      le == Get(c, "lineEnd")
  IN /\ d.t = "str"
     /\ conf.t = "num" /\ (conf.int >= 0) /\ (conf.int < 100 \/ conf = Num(100, 0))
     /\ sev \in {Str(W("low")), Str(W("medium")), Str(W("high")), Str(W("critical"))}
     /\ fix.t = "str"
     /\ ls.t = "num" /\ le.t = "num"
     /\ (ls.int < le.int \/ (ls.int = le.int /\ ls.frac <= le.frac))

\* a candidate with the file path stamped on and every other field as it was
Stamped(c, fp) == Obj([c.o EXCEPT !.filePath = Str(fp)])

\* the candidates of a that are acceptable, in order, with the path stamped on
RECURSIVE StampedAcceptable(_, _)
StampedAcceptable(a, fp) ==
  IF a = <<>>
    THEN <<>>
    ELSE (IF Acceptable(Head(a)) THEN <<Stamped(Head(a), fp)>> ELSE <<>>)
           \o StampedAcceptable(Tail(a), fp)

\* the set of elements of a sequence
Range(a) == { a[i] : i \in 1..Len(a) }

(* ---------------- C1 ---------------- *)

\* C1: detectBugs never lets an error reach its caller: whatever the gateway
\* does and whether or not related-file discovery fails, the promise is never
\* rejected and a finished run has resolved to a list.
C1_NeverRejects ==
  /\ promise.state # "rejected"
  /\ Done => promise.state = "resolved"

\* discovery failed, the chat call failed, and the run resolved to no reports
C1_Witness ==
  /\ pc = "Empty"
  /\ chatCalls = 1
  /\ response = Undefined
  /\ fs.file = "missing" /\ fs.dir = "missing"
  /\ logs = <<"warn: Error extracting imports from " \o NameOf(filePath),
              "warn: Error getting related files",
              "error: Error during bug detection">>
  /\ promise = Resolved(<<>>)

(* ---------------- C2 ---------------- *)

\* C2: a string reply that is a JSON top-level array of well-formed
\* candidates yields a list of the same length, each element carrying the
\* supplied file path and every other field of its candidate.
C2_TopLevelArrayPreserved ==
  (/\ Replied
   /\ IsBareJson(response)
   /\ BareValue(response).t = "arr"
   /\ \A c \in Range(BareValue(response).a) : c.t = "obj" /\ Acceptable(c))
  => /\ promise.state = "resolved"
     /\ Len(promise.value) = Len(BareValue(response).a)
     /\ \A i \in 1..Len(promise.value) :
          promise.value[i] = Stamped(BareValue(response).a[i], filePath)

(* ---------------- C3 ---------------- *)

\* the field constraints of the BugReport data model
MeetsDataModel(r) ==
  /\ Get(r, "description").t = "str" /\ Get(r, "description").s # <<>>
  /\ IsInteger(Get(r, "confidence"))
  /\ Get(r, "confidence").int >= 0 /\ Get(r, "confidence").int <= 100
  /\ Get(r, "severity") \in
       {Str(W("low")), Str(W("medium")), Str(W("high")), Str(W("critical"))}
  /\ Get(r, "suggestedFix").t = "str"
  /\ IsInteger(Get(r, "lineStart")) /\ IsInteger(Get(r, "lineEnd"))
  /\ Get(r, "lineStart").int <= Get(r, "lineEnd").int

\* C3 as stated: every returned element meets every field constraint of the
\* data model (non-empty description, integer confidence in 0..100, legal
\* severity, string suggestedFix, integer lineStart <= lineEnd).
C3_MeetsDataModel ==
  \A i \in 1..Len(promise.value) : MeetsDataModel(promise.value[i])

\* C3 as amended: every returned element has a string description (possibly
\* empty), a number confidence with 0 <= confidence <= 100 (not necessarily
\* an integer), a legal severity, a string suggestedFix and number lineStart
\* and lineEnd (not necessarily integers) with lineStart <= lineEnd.
C3_MeetsCheckedConstraints ==
  \A i \in 1..Len(promise.value) :
    /\ promise.value[i].t = "obj"
    /\ Acceptable(promise.value[i])

\* a reply with an invalid and a valid candidate was assembled, and the
\* returned report has an empty description and a fractional confidence
C3_Witness ==
  /\ pc = "Assembled"
  /\ Len(promise.value) = 1
  /\ Get(promise.value[1], "description") = Str(<<>>)
  /\ Get(promise.value[1], "confidence") = Num(80, 5)
  /\ IsBareJson(response)
  /\ HasCandidateArray(BareValue(response))
  /\ Len(Get(BareValue(response), "bugReports").a) = 2

(* ---------------- C4 ---------------- *)

\* the text an envelope carries: the first present and non-empty of
\* message.content, text, detail.choices[0].message.content
EnvelopeAnswer(r) ==
  LET viaMessage == OptGet(Get(r, "message"), "content")
      viaText == Get(r, "text")
      viaDetail ==
        OptGet(OptGet(OptFirst(OptGet(Get(r, "detail"), "choices")), "message"),
               "content")
      nonEmpty(v) == v.t = "str" /\ v.s # <<>>
  IN IF nonEmpty(viaMessage) THEN viaMessage
     ELSE IF nonEmpty(viaText) THEN viaText
     ELSE IF nonEmpty(viaDetail) THEN viaDetail
     ELSE Undefined

\* C4: for an envelope reply, the list returned is the list returned when
\* the text the envelope carries (first non-empty of message.content, text,
\* detail.choices[0].message.content) is given directly as a string reply.
C4_EnvelopeEqualsInnerText ==
  (Replied /\ response.t = "obj" /\ EnvelopeAnswer(response) # Undefined)
  => /\ promise.state = "resolved"
     /\ promise.value =
          DetectBugsList(EnvelopeAnswer(response), filePath, debug)

(* ---------------- C5 ---------------- *)

\* the text is one fence (untagged, or with any tag) around one JSON text
IsOneFence(s) ==
  \/ /\ Len(s) = 5
     /\ s[1] = FENCE /\ s[2] = NL /\ s[3].k = "json-text"
     /\ s[4] = NL /\ s[5] = FENCE
  \/ /\ Len(s) = 6
     /\ s[1] = FENCE /\ s[2].k = "tag" /\ s[3] = NL /\ s[4].k = "json-text"
     /\ s[5] = NL /\ s[6] = FENCE

\* the JSON text inside one fence
FencedValue(s) == IF Len(s) = 5 THEN s[3].v ELSE s[4].v

\* C5: a reply that is one markdown fence (no tag, the json tag or any other
\* tag) around a payload with a candidate array yields the same list as the
\* bare payload.
C5_FencedEqualsBare ==
  (/\ Replied
   /\ response.t = "str"
   /\ IsOneFence(response.s)
   /\ HasCandidateArray(FencedValue(response.s)))
  => /\ promise.state = "resolved"
     /\ promise.value =
          DetectBugsList(Str(<<JsonText(FencedValue(response.s))>>),
                         filePath, debug)

(* ---------------- C6 ---------------- *)

\* every element of the array is a JSON object
AllObjects(a) == \A c \in Range(a) : c.t = "obj"

\* C6: when an array of object candidates reaches the validator, the
\* validator goes on with exactly the acceptable candidates in their
\* original order.
C6_ValidatorKeepsAcceptable ==
  [][(pc = "Decoded" /\ work.t = "arr" /\ AllObjects(work.a))
       => /\ pc' = "Validated"
          /\ work'.t = "arr"
          /\ work'.a = SelectSeq(work.a, Acceptable)]_vars

\* of two object candidates the validator has dropped the first, whose
\* confidence exceeds 100, and kept the second, whose lineStart = lineEnd
C6_Witness ==
  /\ pc = "Validated"
  /\ IsBareJson(response)
  /\ BareValue(response).t = "obj"
  /\ Get(BareValue(response), "bugReports").t = "arr"
  /\ LET a == Get(BareValue(response), "bugReports").a
     IN /\ Len(a) = 2
        /\ AllObjects(a)
        /\ Get(a[1], "confidence") = Num(100, 1)
        /\ work = Arr(<<a[2]>>)
        /\ Get(a[2], "lineStart") = Get(a[2], "lineEnd")

(* ---------------- C7 ---------------- *)

\* C7: a reply that is valid JSON of neither supported shape yields an empty
\* list and no error; an object without a bugReports key goes through the
\* validator with an empty candidate array.
C7_OtherShapesGiveEmpty ==
  /\ (Replied /\ IsBareJson(response)
        /\ ~HasCandidateArray(BareValue(response)))
       => promise = Resolved(<<>>)
  /\ (IsBareJson(response) /\ BareValue(response).t = "obj"
        /\ Get(BareValue(response), "bugReports") = Undefined
        /\ pc \in {"Decoded", "Validated"})
       => work = Arr(<<>>)
  /\ (Replied /\ IsBareJson(response) /\ BareValue(response).t = "obj"
        /\ Get(BareValue(response), "bugReports") = Undefined)
       => pc = "Assembled"

\* the reply was an object whose bugReports is one report object, not an
\* array; the run ended in the inner catch with no reports
C7_Witness ==
  /\ pc = "Empty"
  /\ IsBareJson(response)
  /\ BareValue(response).t = "obj"
  /\ Get(BareValue(response), "bugReports").t = "obj"
  /\ Acceptable(Get(BareValue(response), "bugReports"))
  /\ promise = Resolved(<<>>)

(* ---------------- C8 ---------------- *)

\* C8: the prompt handed to bot.chat contains no sentinel marker of the diff.
C8_PromptWithoutMarkers ==
  chatCalls >= 1 => ~HasMarker(prompt)

(* ---------------- C9 ---------------- *)

\* C9: the run's result is the result of the same run with options.debug
\* flipped.
C9_DebugDoesNotChangeResult ==
  Done => promise = Settle(AfterGateway(response, filePath, ~debug))

\* a debug run on an answer without analysis text that logged the analysis
\* and returned the one valid report
C9_Witness ==
  /\ pc = "Assembled"
  /\ debug
  /\ Len(promise.value) = 1
  /\ IsBareJson(response)
  /\ Get(BareValue(response), "analysis") = Undefined
  /\ "debug: Analysis" \in Range(logs)

(* ---------------- C10 ---------------- *)

\* C10: an array element that is not an object is dropped like any other
\* invalid candidate and its valid siblings are returned.
C10_NonObjectElementDroppedAlone ==
  (/\ Replied
   /\ IsBareJson(response)
   /\ BareValue(response).t = "obj"
   /\ Get(BareValue(response), "bugReports").t = "arr"
   /\ ~AllObjects(Get(BareValue(response), "bugReports").a))
  => promise =
       Resolved(StampedAcceptable(Get(BareValue(response), "bugReports").a,
                                  filePath))

(* ---------------- C11 ---------------- *)

\* C11: the fence-stripping step is idempotent: applying it to the text it
\* has produced gives that text again.
C11_FenceStripIdempotent ==
  pc = "FenceStripped" => StripFence(work.s) = work.s

(* ---------------- C12 ---------------- *)

\* C12: the Finding Assembler returns a list of the same length and order as
\* the validated list, in which every element's filePath is the ambient file
\* path, whatever filePath the candidate carried, and every other field is
\* the candidate's.
C12_AssemblerStampsPath ==
  [][pc = "Validated"
       => /\ pc' = "Assembled"
          /\ promise'.state = "resolved"
          /\ Len(promise'.value) = Len(work.a)
          /\ \A i \in 1..Len(work.a) :
               /\ promise'.value[i].t = "obj"
               /\ DOMAIN promise'.value[i].o = DOMAIN work.a[i].o \cup {"filePath"}
               /\ promise'.value[i].o.filePath = Str(filePath)
               /\ \A k \in DOMAIN work.a[i].o \ {"filePath"} :
                    promise'.value[i].o[k] = work.a[i].o[k]]_vars

\* two reports were assembled; the model's answer gave the second one a
\* filePath of its own, and both carry the ambient path
C12_Witness ==
  /\ pc = "Assembled"
  /\ Len(promise.value) = 2
  /\ IsBareJson(response)
  /\ Get(BareValue(response), "bugReports").t = "arr"
  /\ Len(Get(BareValue(response), "bugReports").a) = 2
  /\ Get(Get(BareValue(response), "bugReports").a[1], "filePath") = Undefined
  /\ Get(Get(BareValue(response), "bugReports").a[2], "filePath")
       = Str(W("guess.ts"))
  /\ Get(promise.value[1], "filePath") = Str(filePath)
  /\ Get(promise.value[2], "filePath") = Str(filePath)

(* ---------------- C13 ---------------- *)

\* the steps the pipeline may take from one stage to the next
StageOrder ==
  { <<"Start", "ImportsRead">>, <<"ImportsRead", "Reading">>,
    <<"ImportsRead", "Discovered">>, <<"Reading", "Reading">>,
    <<"Reading", "Discovered">>, <<"Discovered", "Built">>,
    <<"Built", "AwaitGateway">>,
    <<"AwaitGateway", "GatewayReturned">>, <<"AwaitGateway", "Empty">>,
    <<"GatewayReturned", "Unwrapped">>, <<"GatewayReturned", "Empty">>,
    <<"Unwrapped", "FenceStripped">>, <<"Unwrapped", "Empty">>,
    <<"FenceStripped", "Decoded">>, <<"FenceStripped", "Empty">>,
    <<"Decoded", "Validated">>, <<"Decoded", "Empty">>,
    <<"Validated", "Assembled">> }

\* the stages that come after the gateway call
AfterCallStages ==
  { "GatewayReturned", "Unwrapped", "FenceStripped", "Decoded", "Validated",
    "Assembled" }

\* C13: bot.chat is called at most once and only on the way from Built; a
\* gateway failure goes straight to Empty with an empty list; the later
\* stages come only after the call and only in their order; nothing happens
\* after Assembled or Empty.
C13_SingleCallStagesInOrder ==
  [][/\ chatCalls' <= 1
     /\ (chatCalls' # chatCalls
           => pc = "Built" /\ pc' = "AwaitGateway" /\ chatCalls' = chatCalls + 1)
     /\ <<pc, pc'>> \in StageOrder
     /\ (pc = "AwaitGateway" /\ pc' # "GatewayReturned"
           => pc' = "Empty" /\ promise' = Resolved(<<>>))
     /\ (pc' \in AfterCallStages => chatCalls' = 1)
     /\ (pc' \in {"Assembled", "Empty"} <=> promise'.state # "pending")
     /\ ~Done]_vars

\* a run that went through every stage after its one gateway call and
\* assembled two reports
C13_Witness ==
  /\ pc = "Assembled"
  /\ chatCalls = 1
  /\ promise.state = "resolved"
  /\ Len(promise.value) = 2
  /\ response.t = "str"
  /\ IsOneFence(response.s)

====
